---- MODULE Spec2Model ----
(***************************************************************************)
(* Model of src/lib/claude-session-parser.ts: the enumeration of Claude    *)
(* Code CLI session files (listClaudeSessions) and the materialisation of  *)
(* one session (parseClaudeSession), over a session store that an external *)
(* tool owns.                                                              *)
(***************************************************************************)
EXTENDS Integers, Sequences, FiniteSets, TLC

(***************************************************************************)
(* JavaScript values, as far as the parser looks at them.  A string is a   *)
(* sequence of one-character strings.  An ISO-8601 string carries the      *)
(* instant it denotes in n.                                                *)
(***************************************************************************)
Undef == [k |-> "undef", s |-> <<>>, n |-> 0, l |-> <<>>]
Str(t) == [k |-> "str", s |-> t, n |-> 0, l |-> <<>>]
Num(i) == [k |-> "num", s |-> <<>>, n |-> i, l |-> <<>>]
True == [k |-> "true", s |-> <<>>, n |-> 0, l |-> <<>>]
False == [k |-> "false", s |-> <<>>, n |-> 0, l |-> <<>>]
List(xs) == [k |-> "list", s |-> <<>>, n |-> 0, l |-> xs]
Obj == [k |-> "obj", s |-> <<>>, n |-> 0, l |-> <<>>]
IsoMark == <<"I", "S", "O">>
Iso(i) == [k |-> "str", s |-> IsoMark, n |-> i, l |-> <<>>]
EmptyStr == Str(<<>>)

\* ToBoolean, as used by !x, x || y and if (x)
Truthy(v) ==
  CASE v.k \in {"undef", "false"} -> FALSE
    [] v.k = "str" -> v.s # <<>>
    [] v.k = "num" -> v.n # 0
    [] OTHER -> TRUE

\* x || y
OrElse(x, y) == IF Truthy(x) THEN x ELSE y

\* new Date(x).getTime(): valid = FALSE stands for NaN
DateOf(v) ==
  CASE v.k = "str" /\ v.s = IsoMark /\ v.n > 0 -> [valid |-> TRUE, t |-> v.n]
    [] v.k = "num" -> [valid |-> TRUE, t |-> v.n]
    [] OTHER -> [valid |-> FALSE, t |-> 0]

\* Date.prototype.toISOString
toISOString(t) == Iso(t)

Digits == <<"0", "1", "2", "3", "4", "5", "6", "7", "8", "9">>

\* ToString of an array element inside Array.prototype.join
ToText(v) ==
  CASE v.k = "str" -> v.s
    [] v.k = "num" /\ v.n \in 0..9 -> <<Digits[v.n + 1]>>
    [] v.k = "true" -> <<"t", "r", "u", "e">>
    [] v.k = "obj" -> <<"[object Object]">>
    [] OTHER -> <<>>

Min(a, b) == IF a < b THEN a ELSE b

\* mutant: the whole string, no cut
SliceAll(t, n) == t

\* String.prototype.slice(0, n)
Slice(t, n) == SubSeq(t, 1, Min(n, Len(t)))

WhiteSpace == {" ", "\n", "\t", "\r"}

\* mutant: only the empty string counts as blank
IsEmptyText(t) == t = <<>>

\* !t.trim()
IsBlank(t) == \A i \in 1..Len(t) : t[i] \in WhiteSpace

RECURSIVE Join(_, _)
\* Array.prototype.join(sep) over an array of strings
Join(parts, sep) ==
  IF parts = <<>> THEN <<>>
  ELSE IF Len(parts) = 1 THEN parts[1]
  ELSE parts[1] \o sep \o Join(Tail(parts), sep)

NL == <<"\n">>

(***************************************************************************)
(* Content blocks and journal entries as they stand in the file.           *)
(***************************************************************************)
Block(type, text) ==
  [k |-> "obj", type |-> type, text |-> text, id |-> Undef, name |-> Undef,
   input |-> Undef, tool_use_id |-> Undef, content |-> Undef, is_error |-> Undef]
NullBlock == [Block("", Undef) EXCEPT !.k = "null"]
ToolUse(id, name, input) ==
  [Block("tool_use", Undef) EXCEPT !.id = id, !.name = name, !.input = input]
ToolResult(id, content, err) ==
  [Block("tool_result", Undef) EXCEPT !.tool_use_id = id, !.content = content, !.is_error = err]

\* One line of the file: json says what JSON.parse makes of it.
Entry(type, ts, content) ==
  [json |-> "object", type |-> type, timestamp |-> ts, cwd |-> Undef,
   gitBranch |-> Undef, version |-> Undef, content |-> content]
RawLine(json) == [Entry("", Undef, Undef) EXCEPT !.json = json]

\* entry.<field> of the value JSON.parse returned: a number, a string or an
\* array has none of the fields the parser reads
Field(line, f) == IF line.json = "object" THEN line[f] ELSE Undef
TypeOf(line) == IF line.json = "object" THEN line.type ELSE ""

(***************************************************************************)
(* Message Reconstructor                                                   *)
(***************************************************************************)
RECURSIVE TextsOf(_)
\* .filter(b => b.type === 'text').map(b => b.text || '')
\* thrown: an element is null, so b.type raises a TypeError
TextsOf(blocks) ==
  IF blocks = <<>> THEN [thrown |-> FALSE, parts |-> <<>>]
  ELSE IF blocks[1].k = "null" THEN [thrown |-> TRUE, parts |-> <<>>]
  ELSE LET rest == TextsOf(Tail(blocks))
       IN IF rest.thrown THEN rest
          ELSE IF blocks[1].type = "text"
               THEN [thrown |-> FALSE,
                     parts |-> <<ToText(OrElse(blocks[1].text, EmptyStr))>> \o rest.parts]
               ELSE rest

NoMsg ==
  [role |-> "", content |-> <<>>, contentBlocks |-> <<>>, hasToolBlocks |-> FALSE,
   timestamp |-> Undef]

\* entry.timestamp || new Date().toISOString()
MessageTimestamp(ts, now) == OrElse(ts, toISOString(now))

\* mutant: every fragment of list content is joined, text-tagged or not
parseUserMessageAllFragments(entry, now) ==
  LET msgContent == Field(entry, "content")
      text == IF msgContent.k = "str" THEN msgContent.s
              ELSE Join([i \in 1..Len(msgContent.l) |->
                           ToText(OrElse(msgContent.l[i].text, EmptyStr))], NL)
  IN IF ~Truthy(msgContent) THEN [tag |-> "none", msg |-> NoMsg]
     ELSE IF msgContent.k \notin {"str", "list"} THEN [tag |-> "none", msg |-> NoMsg]
     ELSE IF IsBlank(text) THEN [tag |-> "none", msg |-> NoMsg]
     ELSE [tag |-> "msg",
           msg |-> [role |-> "user", content |-> text,
                    contentBlocks |-> <<Block("text", Str(text))>>,
                    hasToolBlocks |-> FALSE,
                    timestamp |-> MessageTimestamp(Field(entry, "timestamp"), now)]]

parseUserMessage(entry, now) ==
  LET msgContent == Field(entry, "content")
      lst == TextsOf(msgContent.l)
      text == IF msgContent.k = "str" THEN msgContent.s ELSE Join(lst.parts, NL)
  IN IF ~Truthy(msgContent) THEN [tag |-> "none", msg |-> NoMsg]
     ELSE IF msgContent.k \notin {"str", "list"} THEN [tag |-> "none", msg |-> NoMsg]
     ELSE IF msgContent.k = "list" /\ lst.thrown THEN [tag |-> "throw", msg |-> NoMsg]
     ELSE IF IsBlank(text) THEN [tag |-> "none", msg |-> NoMsg]
     ELSE [tag |-> "msg",
           msg |-> [role |-> "user", content |-> text,
                    contentBlocks |-> <<Block("text", Str(text))>>,
                    hasToolBlocks |-> FALSE,
                    timestamp |-> MessageTimestamp(Field(entry, "timestamp"), now)]]

\* mutant: the content of a tool_result block is passed on as it stands
ResultContentRaw(block) == [thrown |-> FALSE, v |-> block.content]

\* the normalised content of a tool_result block
ResultContent(block) ==
  LET c == block.content
      lst == TextsOf(c.l)
  IN IF c.k = "str" THEN [thrown |-> FALSE, v |-> c]
     ELSE IF c.k = "list"
          THEN [thrown |-> lst.thrown, v |-> Str(Join(lst.parts, NL))]
          ELSE [thrown |-> FALSE, v |-> EmptyStr]

RECURSIVE AssistantBlocks(_)
\* the for loop over msgContent: the blocks kept, the text parts, hasToolBlocks
AssistantBlocks(blocks) ==
  IF blocks = <<>>
  THEN [thrown |-> FALSE, contentBlocks |-> <<>>, textParts |-> <<>>, hasToolBlocks |-> FALSE]
  ELSE IF blocks[1].k = "null"
  THEN [thrown |-> TRUE, contentBlocks |-> <<>>, textParts |-> <<>>, hasToolBlocks |-> FALSE]
  ELSE
    LET b == blocks[1]
        rest == AssistantBlocks(Tail(blocks))
        rc == ResultContent(b)
    IN CASE b.type = "text" /\ Truthy(b.text) ->
              [rest EXCEPT !.contentBlocks = <<Block("text", b.text)>> \o @,
                           !.textParts = <<ToText(b.text)>> \o @]
         [] b.type = "tool_use" ->
              [rest EXCEPT !.contentBlocks =
                             <<ToolUse(OrElse(b.id, EmptyStr), OrElse(b.name, EmptyStr), b.input)>> \o @,
                           !.hasToolBlocks = TRUE]
         [] b.type = "tool_result" ->
              [rest EXCEPT !.thrown = @ \/ rc.thrown,
                           !.contentBlocks =
                             <<ToolResult(OrElse(b.tool_use_id, EmptyStr), rc.v,
                                          OrElse(b.is_error, False))>> \o @,
                           !.hasToolBlocks = TRUE]
         [] OTHER -> rest

\* the text a block of any kind would add if every kept block added text
AnyText(b) == ToText(IF b.type = "text" THEN b.text ELSE b.content)

\* mutant: the plain text is joined from every kept block, tool blocks too
parseAssistantMessageAllBlocks(entry, now) ==
  LET msgContent == Field(entry, "content")
      r == AssistantBlocks(msgContent.l)
  IN IF ~Truthy(msgContent) \/ msgContent.k # "list" THEN [tag |-> "none", msg |-> NoMsg]
     ELSE IF r.thrown THEN [tag |-> "throw", msg |-> NoMsg]
     ELSE IF Len(r.contentBlocks) = 0 THEN [tag |-> "none", msg |-> NoMsg]
     ELSE [tag |-> "msg",
           msg |-> [role |-> "assistant",
                    content |-> Join([i \in 1..Len(r.contentBlocks) |->
                                        AnyText(r.contentBlocks[i])], NL),
                    contentBlocks |-> r.contentBlocks,
                    hasToolBlocks |-> r.hasToolBlocks,
                    timestamp |-> MessageTimestamp(Field(entry, "timestamp"), now)]]

\* mutant: only a tool_use block sets hasToolBlocks
parseAssistantMessageToolUseOnly(entry, now) ==
  LET msgContent == Field(entry, "content")
      r == AssistantBlocks(msgContent.l)
  IN IF ~Truthy(msgContent) \/ msgContent.k # "list" THEN [tag |-> "none", msg |-> NoMsg]
     ELSE IF r.thrown THEN [tag |-> "throw", msg |-> NoMsg]
     ELSE IF Len(r.contentBlocks) = 0 THEN [tag |-> "none", msg |-> NoMsg]
     ELSE [tag |-> "msg",
           msg |-> [role |-> "assistant", content |-> Join(r.textParts, NL),
                    contentBlocks |-> r.contentBlocks,
                    hasToolBlocks |-> \E i \in 1..Len(r.contentBlocks) :
                                        r.contentBlocks[i].type = "tool_use",
                    timestamp |-> MessageTimestamp(Field(entry, "timestamp"), now)]]

parseAssistantMessage(entry, now) ==
  LET msgContent == Field(entry, "content")
      r == AssistantBlocks(msgContent.l)
  IN IF ~Truthy(msgContent) \/ msgContent.k # "list" THEN [tag |-> "none", msg |-> NoMsg]
     ELSE IF r.thrown THEN [tag |-> "throw", msg |-> NoMsg]
     ELSE IF Len(r.contentBlocks) = 0 THEN [tag |-> "none", msg |-> NoMsg]
     ELSE [tag |-> "msg",
           msg |-> [role |-> "assistant", content |-> Join(r.textParts, NL),
                    contentBlocks |-> r.contentBlocks,
                    hasToolBlocks |-> r.hasToolBlocks,
                    timestamp |-> MessageTimestamp(Field(entry, "timestamp"), now)]]

(***************************************************************************)
(* The session store.  root is what stands at ~/.claude/projects; tree is  *)
(* its entries in readdir order.  A project directory holds files in       *)
(* readdir order; a file name is a sequence of name pieces.                *)
(***************************************************************************)
MAX_FILE_SIZE == 50 * 1024 * 1024

Ext == ".jsonl"

File(name, kind, size, birthtime, mtime, lines) ==
  [name |-> name, kind |-> kind, size |-> size, birthtime |-> birthtime,
   mtime |-> mtime, lines |-> lines]

Dir(name, kind, perm, files) ==
  [name |-> name, kind |-> kind, perm |-> perm, files |-> files]

\* fs.readdirSync(dir) needs read permission, a lookup by name search permission
CanList(d) == d.perm = "rx"
CanSearch(d) == d.perm \in {"rx", "x"}

\* f.endsWith('.jsonl')
EndsWithExt(name) == name # <<>> /\ name[Len(name)] = Ext

RECURSIVE ReplaceFirstExt(_)
\* jsonlFile.replace('.jsonl', ''): the first occurrence only
ReplaceFirstExt(name) ==
  IF name = <<>> THEN <<>>
  ELSE IF name[1] = Ext THEN Tail(name)
  ELSE <<name[1]>> \o ReplaceFirstExt(Tail(name))

\* `${sessionId}.jsonl`
CandidateName(sessionId) == sessionId \o <<Ext>>

\* mutant: only the leading dash is replaced
ReplaceNoDashes(t) == t

\* encodedName.replace(/-/g, '/')
ReplaceDashes(t) == [i \in 1..Len(t) |-> IF t[i] = "-" THEN "/" ELSE t[i]]

decodeProjectPath(encodedName) ==
  IF encodedName = <<>> \/ encodedName[1] # "-" THEN encodedName
  ELSE ReplaceDashes(<<"/">> \o Tail(encodedName))

RECURSIVE StripTrailingSlashes(_)
StripTrailingSlashes(t) ==
  IF t # <<>> /\ t[Len(t)] = "/" THEN StripTrailingSlashes(SubSeq(t, 1, Len(t) - 1)) ELSE t

RECURSIVE LastSegment(_)
LastSegment(t) ==
  IF t = <<>> THEN <<>>
  ELSE IF t[Len(t)] = "/" THEN <<>>
  ELSE LastSegment(SubSeq(t, 1, Len(t) - 1)) \o <<t[Len(t)]>>

\* path.basename(p), posix
Basename(t) == LastSegment(StripTrailingSlashes(t))

(***************************************************************************)
(* File Reader Guard                                                       *)
(***************************************************************************)
IsRealLine(l) == l.json # "blank"

\* mutant: stat.size >= MAX_FILE_SIZE
TooLargeOrEqual(size) == size >= MAX_FILE_SIZE

\* stat.size > MAX_FILE_SIZE
TooLarge(size) == size > MAX_FILE_SIZE

\* tag "null": over the ceiling; "throw": fs.readFileSync raised (EISDIR, EACCES)
readJsonlLines(file) ==
  IF TooLarge(file.size) THEN [tag |-> "null", lines |-> <<>>]
  ELSE IF file.kind # "file" THEN [tag |-> "throw", lines |-> <<>>]
  ELSE [tag |-> "ok", lines |-> SelectSeq(file.lines, IsRealLine)]

(***************************************************************************)
(* Metadata pass of the listing (extractSessionInfo)                       *)
(***************************************************************************)
Acc0 ==
  [cwd |-> EmptyStr, gitBranch |-> EmptyStr, version |-> EmptyStr, preview |-> EmptyStr,
   createdAt |-> EmptyStr, updatedAt |-> EmptyStr,
   userMessageCount |-> 0, assistantMessageCount |-> 0, messages |-> <<>>]

PREVIEW_LEN == 120

RECURSIVE FindText(_)
\* msgContent.find(b => b.type === 'text'): stops at the first match; a null
\* element met before it raises
FindText(blocks) ==
  IF blocks = <<>> THEN [tag |-> "none", b |-> NullBlock]
  ELSE IF blocks[1].k = "null" THEN [tag |-> "throw", b |-> NullBlock]
  ELSE IF blocks[1].type = "text" THEN [tag |-> "found", b |-> blocks[1]]
  ELSE FindText(Tail(blocks))

\* x.slice(0, 120) of a value that is truthy: a string has slice, a number,
\* an object or true has none (TypeError)
SliceValue(v) ==
  IF v.k = "str" THEN [thrown |-> FALSE, v |-> Str(Slice(v.s, PREVIEW_LEN))]
  ELSE IF v.k = "list" THEN [thrown |-> FALSE, v |-> List(Slice(v.l, PREVIEW_LEN))]
  ELSE [thrown |-> TRUE, v |-> EmptyStr]

\* mutant: updatedAt is first-wins like createdAt
TrackTimesFirstOnly(acc, ts) ==
  IF Truthy(ts)
  THEN [acc EXCEPT !.createdAt = IF ~Truthy(@) THEN ts ELSE @,
                   !.updatedAt = IF ~Truthy(@) THEN ts ELSE @]
  ELSE acc

\* first timestamp seen, last timestamp seen
TrackTimes(acc, ts) ==
  IF Truthy(ts)
  THEN [acc EXCEPT !.createdAt = IF ~Truthy(@) THEN ts ELSE @, !.updatedAt = ts]
  ELSE acc

\* first-wins capture of cwd, gitBranch, version
TrackUser(acc, entry) ==
  [acc EXCEPT !.userMessageCount = @ + 1,
              !.cwd = IF ~Truthy(@) /\ Truthy(entry.cwd) THEN entry.cwd ELSE @,
              !.gitBranch = IF ~Truthy(@) /\ Truthy(entry.gitBranch) THEN entry.gitBranch ELSE @,
              !.version = IF ~Truthy(@) /\ Truthy(entry.version) THEN entry.version ELSE @]

\* the preview block: the value preview has afterwards, or thrown
TrackPreview(preview, msgContent) ==
  LET f == FindText(msgContent.l)
      sl == SliceValue(f.b.text)
  IN IF Truthy(preview) \/ ~Truthy(msgContent) THEN [thrown |-> FALSE, v |-> preview]
     ELSE IF msgContent.k = "str"
          THEN [thrown |-> FALSE, v |-> Str(Slice(msgContent.s, PREVIEW_LEN))]
     ELSE IF msgContent.k = "list"
          THEN IF f.tag = "throw" THEN [thrown |-> TRUE, v |-> preview]
               ELSE IF f.tag = "found" /\ Truthy(f.b.text)
                    THEN IF sl.thrown THEN [thrown |-> TRUE, v |-> preview]
                         ELSE [thrown |-> FALSE, v |-> sl.v]
                    ELSE [thrown |-> FALSE, v |-> preview]
     ELSE [thrown |-> FALSE, v |-> preview]

\* mutant: the listing pass takes no preview
ExtractUserNoPreview(acc, p) == acc

\* a user entry of the listing pass after its counters: the preview
ExtractUser(acc, p) == IF p.thrown THEN acc ELSE [acc EXCEPT !.preview = p.v]

ExtractEntry(acc, entry) ==
  CASE TypeOf(entry) = "user" ->
         ExtractUser(TrackUser(acc, entry), TrackPreview(acc.preview, entry.content))
    [] TypeOf(entry) = "assistant" -> [acc EXCEPT !.assistantMessageCount = @ + 1]
    [] OTHER -> acc

\* one turn of the loop of extractSessionInfo, its catch included
ExtractLine(acc, line) ==
  IF line.json \in {"bad", "null"} THEN acc
  ELSE ExtractEntry(TrackTimes(acc, Field(line, "timestamp")), line)

RECURSIVE ExtractLines(_, _)
ExtractLines(acc, lines) ==
  IF lines = <<>> THEN acc ELSE ExtractLines(ExtractLine(acc, lines[1]), Tail(lines))

\* mutant: a session counts as empty when no timestamp was seen
IsEmptySessionByTime(acc) == ~Truthy(acc.createdAt)

\* userMessageCount === 0 && assistantMessageCount === 0
IsEmptySession(acc) == acc.userMessageCount = 0 /\ acc.assistantMessageCount = 0

NoPreview == <<"(", "n", "o", " ", "p", "r", "e", "v", "i", "e", "w", ")">>

NoInfo ==
  [sessionId |-> <<>>, projectPath |-> Undef, projectName |-> <<>>, cwd |-> Undef,
   gitBranch |-> Undef, version |-> Undef, preview |-> Undef,
   userMessageCount |-> 0, assistantMessageCount |-> 0,
   createdAt |-> Undef, updatedAt |-> Undef, fileSize |-> 0]

\* createdAt: createdAt || stat.birthtime.toISOString()
CreatedAtOf(acc, file) == OrElse(acc.createdAt, toISOString(file.birthtime))
\* updatedAt: updatedAt || stat.mtime.toISOString()
UpdatedAtOf(acc, file) == OrElse(acc.updatedAt, toISOString(file.mtime))

\* the returned object literal; path.basename raises on a value that is no string
InfoOf(acc, effectivePath, file, sessionId) ==
  IF effectivePath.k # "str" THEN [tag |-> "throw", info |-> NoInfo]
  ELSE [tag |-> "ok",
        info |-> [sessionId |-> sessionId,
                  projectPath |-> effectivePath,
                  projectName |-> Basename(effectivePath.s),
                  cwd |-> effectivePath,
                  gitBranch |-> OrElse(acc.gitBranch, EmptyStr),
                  version |-> OrElse(acc.version, EmptyStr),
                  preview |-> OrElse(acc.preview, Str(NoPreview)),
                  userMessageCount |-> acc.userMessageCount,
                  assistantMessageCount |-> acc.assistantMessageCount,
                  createdAt |-> CreatedAtOf(acc, file),
                  updatedAt |-> UpdatedAtOf(acc, file),
                  fileSize |-> file.size]]

\* mutant: the decoded directory name is used even when a cwd was seen
BuildInfoDecoded(acc, file, sessionId, projectPath) ==
  InfoOf(acc, Str(projectPath), file, sessionId)

\* const effectivePath = cwd || projectPath
BuildInfo(acc, file, sessionId, projectPath) ==
  InfoOf(acc, OrElse(acc.cwd, Str(projectPath)), file, sessionId)

\* after the loop of extractSessionInfo
ExtractFinish(acc, file, sessionId, projectPath) ==
  IF IsEmptySession(acc) THEN [tag |-> "null", info |-> NoInfo]
  ELSE BuildInfo(acc, file, sessionId, projectPath)

ExtractRead(result, file, sessionId, projectPath) ==
  IF result.tag # "ok" THEN [tag |-> result.tag, info |-> NoInfo]
  ELSE IF Len(result.lines) = 0 THEN [tag |-> "null", info |-> NoInfo]
  ELSE ExtractFinish(ExtractLines(Acc0, result.lines), file, sessionId, projectPath)

\* tag "ok": an info; "null": null; "throw": an exception leaves the function
extractSessionInfo(file, sessionId, projectPath) ==
  ExtractRead(readJsonlLines(file), file, sessionId, projectPath)

(***************************************************************************)
(* Session Enumerator (listClaudeSessions)                                 *)
(***************************************************************************)
\* mutant: no catch around extractSessionInfo
CatchFileNone(r) == r

\* the catch around extractSessionInfo: a file that raises is skipped
CatchFile(r) == IF r.tag = "throw" THEN [r EXCEPT !.tag = "null"] ELSE r

RECURSIVE ScanFiles(_, _, _)
\* the loop over jsonlFiles; sessions is the array shared by all loops, so what
\* was pushed before a raise stays pushed
ScanFiles(files, projectDir, sessions) ==
  IF files = <<>> THEN [thrown |-> FALSE, sessions |-> sessions]
  ELSE
    LET jsonlFile == files[1]
        sessionId == ReplaceFirstExt(jsonlFile.name)
        r == CatchFile(extractSessionInfo(jsonlFile, sessionId,
                                          decodeProjectPath(projectDir.name)))
    IN IF r.tag = "throw" THEN [thrown |-> TRUE, sessions |-> sessions]
       ELSE ScanFiles(Tail(files), projectDir,
                      IF r.tag = "ok" THEN Append(sessions, r.info) ELSE sessions)

IsJsonl(f) == EndsWithExt(f.name)

\* the catch around one project directory: a directory that raises is skipped
CatchDir(r) == [r EXCEPT !.thrown = FALSE]

\* one project directory: readdirSync, the filter, the loop, and the catch
\* around them
ScanDir(projectDir, sessions) ==
  CatchDir(IF ~CanList(projectDir) THEN [thrown |-> TRUE, sessions |-> sessions]
           ELSE ScanFiles(SelectSeq(projectDir.files, IsJsonl), projectDir, sessions))

RECURSIVE ScanDirs(_, _)
\* the loop over projectDirs: entries that are no directories are passed over
ScanDirs(projectDirs, sessions) ==
  IF projectDirs = <<>> THEN [thrown |-> FALSE, sessions |-> sessions]
  ELSE IF projectDirs[1].kind # "dir" THEN ScanDirs(Tail(projectDirs), sessions)
  ELSE LET r == ScanDir(projectDirs[1], sessions)
       IN IF r.thrown THEN r ELSE ScanDirs(Tail(projectDirs), r.sessions)

\* the outer catch: the projects directory cannot be read
CatchRoot(r) == [r EXCEPT !.thrown = FALSE]

\* the sessions pushed, before the sort; thrown: an exception leaves the function
CollectSessions(rt, tr) ==
  IF rt = "absent" THEN [thrown |-> FALSE, sessions |-> <<>>]
  ELSE CatchRoot(IF rt # "dir" THEN [thrown |-> TRUE, sessions |-> <<>>]
                 ELSE ScanDirs(tr, <<>>))

\* (a, b) => new Date(b.updatedAt).getTime() - new Date(a.updatedAt).getTime()
\* NaN counts as +0 in Array.prototype.sort
Compare(a, b) ==
  LET ta == DateOf(a.updatedAt)
      tb == DateOf(b.updatedAt)
  IN IF ta.valid /\ tb.valid THEN tb.t - ta.t ELSE 0

RECURSIVE InsertSorted(_, _)
\* x goes after every element it does not sort strictly before
InsertSorted(sorted, x) ==
  IF sorted = <<>> THEN <<x>>
  ELSE IF Compare(x, sorted[1]) < 0 THEN <<x>> \o sorted
  ELSE <<sorted[1]>> \o InsertSorted(Tail(sorted), x)

RECURSIVE StableSort(_)
StableSort(xs) ==
  IF xs = <<>> THEN <<>>
  ELSE InsertSorted(StableSort(SubSeq(xs, 1, Len(xs) - 1)), xs[Len(xs)])

\* a consistent comparator orders equal elements transitively
Consistent(xs) ==
  \A i, j, m \in 1..Len(xs) :
    (Compare(xs[i], xs[j]) = 0 /\ Compare(xs[j], xs[m]) = 0) => Compare(xs[i], xs[m]) = 0

Reorderings(xs) ==
  {[i \in 1..Len(xs) |-> xs[p[i]]] :
     p \in {q \in [1..Len(xs) -> 1..Len(xs)] : \A i, j \in 1..Len(xs) : q[i] = q[j] => i = j}}

\* what sessions.sort(...) may leave: the stable order, or, with a comparator
\* that is not consistent, an order ECMAScript leaves to the implementation
SortOutcomes(xs) == IF Consistent(xs) THEN {StableSort(xs)} ELSE Reorderings(xs)

(***************************************************************************)
(* Session Materializer (parseClaudeSession)                               *)
(***************************************************************************)
\* fs.existsSync(candidate)
HasFile(projectDir, name) ==
  CanSearch(projectDir) /\ \E i \in 1..Len(projectDir.files) : projectDir.files[i].name = name

FileNamed(projectDir, name) ==
  projectDir.files[CHOOSE i \in 1..Len(projectDir.files) : projectDir.files[i].name = name]

RECURSIVE FindSessionLast(_, _)
\* mutant: the last project directory that has the candidate
FindSessionLast(projectDirs, sessionId) ==
  IF projectDirs = <<>> THEN [found |-> FALSE, dir |-> Dir(<<>>, "dir", "rx", <<>>)]
  ELSE IF FindSessionLast(Tail(projectDirs), sessionId).found
       THEN FindSessionLast(Tail(projectDirs), sessionId)
  ELSE IF projectDirs[1].kind = "dir" /\ HasFile(projectDirs[1], CandidateName(sessionId))
       THEN [found |-> TRUE, dir |-> projectDirs[1]]
  ELSE [found |-> FALSE, dir |-> Dir(<<>>, "dir", "rx", <<>>)]

RECURSIVE FindSession(_, _)
\* the first project directory, in readdir order, that has the candidate
FindSession(projectDirs, sessionId) ==
  IF projectDirs = <<>> THEN [found |-> FALSE, dir |-> Dir(<<>>, "dir", "rx", <<>>)]
  ELSE IF projectDirs[1].kind = "dir" /\ HasFile(projectDirs[1], CandidateName(sessionId))
       THEN [found |-> TRUE, dir |-> projectDirs[1]]
  ELSE FindSession(Tail(projectDirs), sessionId)

\* if (entry.timestamp) { ... } of the materialize pass
ParseTimes(acc, ts) ==
  IF Truthy(ts)
  THEN [acc EXCEPT !.createdAt = IF ~Truthy(@) THEN ts ELSE @, !.updatedAt = ts]
  ELSE acc

\* mutant: cwd, gitBranch and version are taken from the latest user line
ParseUserMetaLastWins(acc, entry) ==
  [acc EXCEPT !.userMessageCount = @ + 1,
              !.cwd = IF Truthy(entry.cwd) THEN entry.cwd ELSE @,
              !.gitBranch = IF Truthy(entry.gitBranch) THEN entry.gitBranch ELSE @,
              !.version = IF Truthy(entry.version) THEN entry.version ELSE @]

\* userMessageCount++ and the first-wins capture of cwd, gitBranch, version
ParseUserMeta(acc, entry) ==
  [acc EXCEPT !.userMessageCount = @ + 1,
              !.cwd = IF ~Truthy(@) /\ Truthy(entry.cwd) THEN entry.cwd ELSE @,
              !.gitBranch = IF ~Truthy(@) /\ Truthy(entry.gitBranch) THEN entry.gitBranch ELSE @,
              !.version = IF ~Truthy(@) /\ Truthy(entry.version) THEN entry.version ELSE @]

\* preview = textBlock.text.slice(0, 120)
ParsePreviewSlice(preview, sl) ==
  IF sl.thrown THEN [thrown |-> TRUE, v |-> preview] ELSE [thrown |-> FALSE, v |-> sl.v]

\* the Array.isArray branch of the preview block
ParsePreviewList(preview, f) ==
  IF f.tag = "throw" THEN [thrown |-> TRUE, v |-> preview]
  ELSE IF f.tag = "found" /\ Truthy(f.b.text)
       THEN ParsePreviewSlice(preview, SliceValue(f.b.text))
       ELSE [thrown |-> FALSE, v |-> preview]

\* the preview block of the materialize pass: the value preview has
\* afterwards, or thrown
ParsePreview(preview, msgContent) ==
  IF Truthy(preview) \/ ~Truthy(msgContent) THEN [thrown |-> FALSE, v |-> preview]
  ELSE IF msgContent.k = "str"
       THEN [thrown |-> FALSE, v |-> Str(Slice(msgContent.s, PREVIEW_LEN))]
  ELSE IF msgContent.k = "list" THEN ParsePreviewList(preview, FindText(msgContent.l))
  ELSE [thrown |-> FALSE, v |-> preview]

\* mutant: messages.unshift(parsed)
PushMessageFront(acc, parsed) ==
  IF parsed.tag = "msg" THEN [acc EXCEPT !.messages = <<parsed.msg>> \o @] ELSE acc

\* mutant: messages.push(parsed, parsed)
PushMessageTwice(acc, parsed) ==
  IF parsed.tag = "msg" THEN [acc EXCEPT !.messages = @ \o <<parsed.msg, parsed.msg>>] ELSE acc

\* if (parsed) messages.push(parsed); a raise of the reconstructor is caught
\* by the loop and pushes nothing
PushMessage(acc, parsed) ==
  IF parsed.tag = "msg" THEN [acc EXCEPT !.messages = Append(@, parsed.msg)] ELSE acc

\* a user entry after its counters: preview, then the message
ParseUserEntry(acc, p, entry, now) ==
  IF p.thrown THEN acc
  ELSE PushMessage([acc EXCEPT !.preview = p.v], parseUserMessage(entry, now))

ParseUser(acc, entry, now) ==
  ParseUserEntry(acc, ParsePreview(acc.preview, entry.content), entry, now)

\* mutant: an assistant line is counted only when it yields a message
ParseAssistantIfMessage(acc, entry, now) ==
  IF parseAssistantMessage(entry, now).tag = "msg"
  THEN PushMessage([acc EXCEPT !.assistantMessageCount = @ + 1],
                   parseAssistantMessage(entry, now))
  ELSE acc

ParseAssistant(acc, entry, now) ==
  PushMessage([acc EXCEPT !.assistantMessageCount = @ + 1], parseAssistantMessage(entry, now))

\* the branch on entry.type
ParseEntry(acc, entry, now) ==
  CASE TypeOf(entry) = "user" -> ParseUser(ParseUserMeta(acc, entry), entry, now)
    [] TypeOf(entry) = "assistant" -> ParseAssistant(acc, entry, now)
    [] OTHER -> acc

\* one turn of the loop of parseClaudeSession, its catch included: JSON.parse
\* raises on malformed text, entry.timestamp raises on null
ParseLine(acc, line, now) ==
  IF line.json \in {"bad", "null"} THEN acc
  ELSE ParseEntry(ParseTimes(acc, Field(line, "timestamp")), line, now)

RECURSIVE ParseLinesAbort(_, _, _)
\* mutant: no catch inside the loop, a line that raises ends the pass
ParseLinesAbort(acc, lines, now) ==
  IF lines = <<>> THEN acc
  ELSE IF lines[1].json \in {"bad", "null"} THEN acc
  ELSE ParseLinesAbort(ParseLine(acc, lines[1], now), Tail(lines), now)

RECURSIVE ParseLines(_, _, _)
ParseLines(acc, lines, now) ==
  IF lines = <<>> THEN acc ELSE ParseLines(ParseLine(acc, lines[1], now), Tail(lines), now)

NotFound == [tag |-> "null", info |-> NoInfo, messages |-> <<>>]
Raised == [tag |-> "throw", info |-> NoInfo, messages |-> <<>>]

\* the ParsedSession returned; path.basename raises on a value that is no string
ParseInfo(acc, effectivePath, file, sessionId) ==
  IF effectivePath.k # "str" THEN Raised
  ELSE [tag |-> "ok",
        info |-> [sessionId |-> sessionId,
                  projectPath |-> effectivePath,
                  projectName |-> Basename(effectivePath.s),
                  cwd |-> effectivePath,
                  gitBranch |-> OrElse(acc.gitBranch, EmptyStr),
                  version |-> OrElse(acc.version, EmptyStr),
                  preview |-> OrElse(acc.preview, Str(NoPreview)),
                  userMessageCount |-> acc.userMessageCount,
                  assistantMessageCount |-> acc.assistantMessageCount,
                  createdAt |-> OrElse(acc.createdAt, toISOString(file.birthtime)),
                  updatedAt |-> OrElse(acc.updatedAt, toISOString(file.mtime)),
                  fileSize |-> file.size],
        messages |-> acc.messages]

\* mutant: a session without messages counts as empty
ParseFinishNoMessages(acc, file, sessionId, projectPath) ==
  IF acc.messages = <<>> THEN NotFound
  ELSE ParseInfo(acc, OrElse(acc.cwd, Str(projectPath)), file, sessionId)

\* after the loop: the empty-session check
ParseFinish(acc, file, sessionId, projectPath) ==
  IF acc.userMessageCount = 0 /\ acc.assistantMessageCount = 0 THEN NotFound
  ELSE ParseInfo(acc, OrElse(acc.cwd, Str(projectPath)), file, sessionId)

\* readJsonlLines is called outside any try: its raise leaves the function
ParseRead(result, file, sessionId, projectPath, now) ==
  IF result.tag = "throw" THEN Raised
  ELSE IF result.tag = "null" THEN NotFound
  ELSE IF Len(result.lines) = 0 THEN NotFound
  ELSE ParseFinish(ParseLines(Acc0, result.lines, now), file, sessionId, projectPath)

ParseFile(file, sessionId, projectPath, now) ==
  ParseRead(readJsonlLines(file), file, sessionId, projectPath, now)

ParseLocated(loc, sessionId, now) ==
  IF ~loc.found THEN NotFound
  ELSE ParseFile(FileNamed(loc.dir, CandidateName(sessionId)), sessionId,
                 decodeProjectPath(loc.dir.name), now)

\* tag "ok": a ParsedSession; "null": not found; "throw": an exception leaves
\* the function
parseClaudeSession(rt, tr, sessionId, now) ==
  IF rt = "absent" THEN NotFound
  ELSE IF rt # "dir" THEN NotFound
  ELSE ParseLocated(FindSession(tr, sessionId), sessionId, now)

(***************************************************************************)
(* The state: the session store, the wall clock, and what the latest call  *)
(* returned.  last is kept while the store is as that call saw it; a write *)
(* of the external tool clears it.                                          *)
(*                                                                         *)
(* The lines written range over the shapes of JournalEntry, UserEntry and  *)
(* AssistantEntry (fields of their declared types, present or missing) and *)
(* over text that JSON.parse rejects or decodes to no object.              *)
(***************************************************************************)
VARIABLES root, tree, now, last, host

vars == <<root, tree, now, last, host>>

MaxLines == 3
MaxClock == 2
MaxDirs == 2
MaxFiles == 2

\* the host application's database and the import requests under way:
\* nothing stored, nothing asked
NoResponse == [status |-> 0, sessionId |-> Undef, id |-> 0, messageCount |-> 0]
NoHost == [sessions |-> <<>>, messages |-> <<>>, pending |-> <<>>, received |-> 0,
           response |-> NoResponse]

NoCall ==
  [op |-> "none", id |-> <<>>, at |-> 0, tag |-> "null", info |-> NoInfo,
   messages |-> <<>>, list |-> <<>>]

Hi == <<"h", "i">>
Yo == <<"y", "o">>
Ok == <<"o", "k">>
Work == <<"/", "w", "/", "x">>
Garbage == Str(<<"s", "o", "o", "n">>)

UserLine(ts, text) ==
  [Entry("user", ts, Str(text)) EXCEPT !.cwd = Str(Work), !.gitBranch = Str(<<"m">>),
                                      !.version = Str(<<"2">>)]
AssistantLine(ts, blocks) == Entry("assistant", ts, List(blocks))
QueueLine(ts) == Entry("queue-operation", ts, Undef)

\* the lines the external tool (or a corruption of its file) appends
LineShapes ==
  { RawLine("blank"), RawLine("bad"), RawLine("null"), RawLine("array"),
    QueueLine(Iso(3)),
    UserLine(Iso(2), Hi),
    UserLine(Undef, Yo),
    AssistantLine(Iso(1), <<Block("text", Str(Ok))>>),
    AssistantLine(EmptyStr, <<>>) }

SessionIds == {<<"s1">>, <<"s2">>}

DirName(i) == IF i = 1 THEN <<"-", "a", "-", "b">> ELSE [j \in 1..i |-> "d"]

Init ==
  /\ root = "dir"
  /\ \E size \in {1, MAX_FILE_SIZE, MAX_FILE_SIZE + 1} :
       tree = <<Dir(DirName(1), "dir", "rx",
                    <<File(<<"s1", Ext>>, "file", size, 1, 2, <<>>)>>)>>
  /\ now = 1
  /\ last = NoCall
  /\ host = NoHost

\* the external tool appends one line to a session file
ExternalAppend ==
  /\ \E d \in 1..Len(tree) : \E f \in 1..Len(tree[d].files) : \E line \in LineShapes :
       /\ Len(tree[d].files[f].lines) < MaxLines
       /\ tree' = [tree EXCEPT ![d].files[f].lines = Append(@, line)]
  /\ last' = NoCall
  /\ UNCHANGED <<root, now, host>>

ListResult(thrown, sorted, at) ==
  [NoCall EXCEPT !.op = "list", !.at = at, !.tag = IF thrown THEN "throw" ELSE "ok",
                 !.list = IF thrown THEN <<>> ELSE sorted]

\* what listClaudeSessions() may return: the pushed sessions, sorted
ListResults(c, at) == {ListResult(c.thrown, sorted, at) : sorted \in SortOutcomes(c.sessions)}

\* a caller runs listClaudeSessions()
ListCall ==
  /\ last' \in ListResults(CollectSessions(root, tree), now)
  /\ UNCHANGED <<root, tree, now, host>>

ParseResult(r, sessionId, at) ==
  [NoCall EXCEPT !.op = "parse", !.id = sessionId, !.at = at,
                 !.tag = r.tag, !.info = r.info, !.messages = r.messages]

\* a caller runs parseClaudeSession(sessionId)
ParseCall ==
  /\ \E sessionId \in SessionIds :
       last' = ParseResult(parseClaudeSession(root, tree, sessionId, now), sessionId, now)
  /\ UNCHANGED <<root, tree, now, host>>

\* wall-clock time passes
Tick ==
  /\ now < MaxClock
  /\ now' = now + 1
  /\ UNCHANGED <<root, tree, last, host>>

Next == ExternalAppend \/ ListCall \/ ParseCall \/ Tick

Spec == Init /\ [][Next]_vars

(***************************************************************************)
(* The store as a tree: the external tool makes project directories and    *)
(* session files; what stands at the root is fixed at the start.           *)
(***************************************************************************)
\* a project directory, a directory that cannot be read, a plain file
DirKinds ==
  { [kind |-> "dir", perm |-> "rx"], [kind |-> "dir", perm |-> "none"],
    [kind |-> "file", perm |-> "rx"] }

TreeContents ==
  { <<RawLine("blank")>>, <<RawLine("bad")>>, <<QueueLine(Iso(3))>>,
    <<UserLine(Iso(1), Hi)>>, <<UserLine(Iso(2), Yo)>>, <<UserLine(Garbage, Hi)>> }

\* what can stand under a name: a readable file, a file over the ceiling, a
\* directory
TreeFiles(name) ==
  {File(name, "file", 1, 1, 2, c) : c \in TreeContents}
    \cup {File(name, "file", MAX_FILE_SIZE + 1, 1, 2, <<UserLine(Iso(3), Hi)>>),
          File(name, "dir", 1, 1, 2, <<>>)}

FileNames == {<<"s1", Ext>>, <<"s2", Ext>>}

RECURSIVE TotalFiles(_)
TotalFiles(tr) == IF tr = <<>> THEN 0 ELSE Len(tr[1].files) + TotalFiles(Tail(tr))

InitTree ==
  /\ root \in {"absent", "file", "dir"}
  /\ tree = <<>>
  /\ now = 1
  /\ last = NoCall
  /\ host = NoHost

ExternalMkdir ==
  /\ root = "dir"
  /\ Len(tree) < MaxDirs
  /\ \E k \in DirKinds : tree' = Append(tree, Dir(DirName(Len(tree) + 1), k.kind, k.perm, <<>>))
  /\ last' = NoCall
  /\ UNCHANGED <<root, now, host>>

ExternalCreate ==
  /\ TotalFiles(tree) < MaxFiles
  /\ \E d \in 1..Len(tree) : \E name \in FileNames : \E file \in TreeFiles(name) :
       /\ tree[d].kind = "dir"
       /\ \A i \in 1..Len(tree[d].files) : tree[d].files[i].name # name
       /\ tree' = [tree EXCEPT ![d].files = Append(@, file)]
  /\ last' = NoCall
  /\ UNCHANGED <<root, now, host>>

NextTree == ExternalMkdir \/ ExternalCreate \/ ListCall \/ ParseCall

SpecTree == InitTree /\ [][NextTree]_vars

(***************************************************************************)
(* Properties.  Under Spec the store holds one session file, s1.jsonl.     *)
(***************************************************************************)
TheFile == tree[1].files[1]

\* JSON.parse accepts the line
Decodes(l) == l.json \in {"null", "scalar", "array", "object"}
\* the line decodes to a JSON object
IsObject(l) == l.json = "object"
IsTurn(l) == IsObject(l) /\ l.type \in {"user", "assistant"}
IsQueue(l) == IsObject(l) /\ l.type = "queue-operation"

OnlyOther(file) ==
  \A i \in 1..Len(file.lines) : Decodes(file.lines[i]) => ~IsTurn(file.lines[i])

\* C1: a session file whose decodable lines all have a type other than user
\* and assistant is left out by list_sessions, and parse_session returns
\* not-found for it.
C1_OnlyOtherExcluded ==
  OnlyOther(TheFile) =>
    /\ last.op = "list" => (last.tag = "ok" /\ last.list = <<>>)
    /\ last.op = "parse" => last.tag = "null"

C1_Witness ==
  /\ last.op = "parse" /\ last.id = <<"s1">> /\ last.tag = "null"
  /\ ~TooLarge(TheFile.size)
  /\ OnlyOther(TheFile)
  /\ \E i \in 1..Len(TheFile.lines) : IsQueue(TheFile.lines[i])

\* the store with every line that does not decode to a JSON object taken out
WithoutUndecoded(tr) ==
  [d \in 1..Len(tr) |->
     [tr[d] EXCEPT !.files =
        [f \in 1..Len(tr[d].files) |->
           [tr[d].files[f] EXCEPT !.lines = SelectSeq(@, IsObject)]]]]

SameMetadata(i, j) ==
  /\ i.userMessageCount = j.userMessageCount
  /\ i.assistantMessageCount = j.assistantMessageCount
  /\ i.cwd = j.cwd /\ i.gitBranch = j.gitBranch /\ i.version = j.version
  /\ i.preview = j.preview /\ i.createdAt = j.createdAt /\ i.updatedAt = j.updatedAt

C2_Same(r) ==
  r.tag = last.tag /\ r.messages = last.messages /\ SameMetadata(r.info, last.info)

\* C2: lines that do not decode to a JSON object have no effect: with all of
\* them removed, parse_session returns the same messages in the same order
\* and the same counts, cwd, gitBranch, version, preview, createdAt, updatedAt.
C2_UndecodedLinesNoEffect ==
  last.op = "parse" =>
    C2_Same(parseClaudeSession(root, WithoutUndecoded(tree), last.id, last.at))

C2_Witness ==
  /\ last.op = "parse" /\ last.tag = "ok" /\ Len(last.messages) = 2
  /\ Len(TheFile.lines) = 3
  /\ ~IsObject(TheFile.lines[2]) /\ IsRealLine(TheFile.lines[2])

\* the Message Reconstructor on one decoded user or assistant line
Reconstruct(line, at) ==
  IF line.type = "user" THEN parseUserMessage(line, at) ELSE parseAssistantMessage(line, at)

RECURSIVE Produced(_, _)
\* the messages the turns produce, in file order
Produced(lines, at) ==
  IF lines = <<>> THEN <<>>
  ELSE IF IsTurn(lines[1]) /\ Reconstruct(lines[1], at).tag = "msg"
       THEN <<Reconstruct(lines[1], at).msg>> \o Produced(Tail(lines), at)
       ELSE Produced(Tail(lines), at)

\* C3: the messages of parse_session are the messages the Message
\* Reconstructor produces for the decoded user and assistant lines, in file
\* order, each with the role of its line.
C3_MessagesInFileOrder ==
  (last.op = "parse" /\ last.tag = "ok") =>
    last.messages = Produced(TheFile.lines, last.at)

C3_Witness ==
  /\ last.op = "parse" /\ last.tag = "ok" /\ Len(last.messages) = 3
  /\ last.messages[1].role = "assistant" /\ last.messages[2].role = "user"
  /\ last.messages[1].content # last.messages[3].content

\* C4: parse_session is idempotent: a call made now, on the store as the
\* latest call saw it, returns what that call returned, message timestamps
\* included.
C4_Idempotent ==
  last.op = "parse" =>
    ParseResult(parseClaudeSession(root, tree, last.id, now), last.id, last.at) = last

\* C5: parse_session never raises to its caller.
C5_ParseNeverRaises == last.op = "parse" => last.tag # "throw"

\* a file the listing cannot use: over the ceiling, not readable as a file,
\* or without one line that decodes
FailingFile(file) ==
  \/ TooLarge(file.size)
  \/ file.kind # "file"
  \/ \A i \in 1..Len(file.lines) : ~Decodes(file.lines[i])

GoodFile(file) == ~FailingFile(file)
GoodDir(d) == d.kind = "dir" /\ CanList(d)

\* the store without its failing files, unreadable directories and entries
\* that are no directories
WithoutFailures(tr) ==
  LET dirs == SelectSeq(tr, GoodDir)
  IN [d \in 1..Len(dirs) |-> [dirs[d] EXCEPT !.files = SelectSeq(@, GoodFile)]]

\* C6: list_sessions never raises; with the root absent it returns an empty
\* list; a failing file or an unreadable project directory takes away only
\* its own entries: the list is the list of the store without them.
C6_ListIsolatesFailures ==
  last.op = "list" =>
    /\ last.tag = "ok"
    /\ root = "absent" => last.list = <<>>
    /\ last.list \in SortOutcomes(CollectSessions(root, WithoutFailures(tree)).sessions)

C6_Witness ==
  /\ last.op = "list" /\ Len(last.list) = 1
  /\ Len(tree) = 1 /\ Len(tree[1].files) = 2
  /\ tree[1].files[1].kind = "dir"
  /\ last.list[1].sessionId = ReplaceFirstExt(tree[1].files[2].name)

RECURSIVE CountTurns(_)
CountTurns(lines) ==
  IF lines = <<>> THEN 0
  ELSE (IF IsTurn(lines[1]) THEN 1 ELSE 0) + CountTurns(Tail(lines))

TurnsCounted(info) == info.userMessageCount + info.assistantMessageCount

\* C7: a file over the ceiling of 50 MiB is never parsed: list_sessions
\* leaves it out and parse_session returns not-found; a file of at most the
\* ceiling is read in full: every user and assistant line of it is counted.
C7_SizeCeiling ==
  /\ TheFile.size > 50 * 1024 * 1024 =>
       /\ last.op = "list" => last.list = <<>>
       /\ last.op = "parse" => last.tag = "null"
  /\ TheFile.size <= 50 * 1024 * 1024 =>
       /\ last.op = "list" =>
            /\ (last.list # <<>>) = (CountTurns(TheFile.lines) > 0)
            /\ \A i \in 1..Len(last.list) :
                 TurnsCounted(last.list[i]) = CountTurns(TheFile.lines)
       /\ (last.op = "parse" /\ last.id = <<"s1">>) =>
            /\ (last.tag = "ok") = (CountTurns(TheFile.lines) > 0)
            /\ last.tag = "ok" => TurnsCounted(last.info) = CountTurns(TheFile.lines)

C7_Witness ==
  /\ last.op = "parse" /\ last.id = <<"s1">> /\ last.tag = "null"
  /\ TheFile.size > 50 * 1024 * 1024
  /\ CountTurns(TheFile.lines) = 3

\* a is an instant not after b
NotAfter(a, b) == DateOf(a).valid /\ DateOf(b).valid /\ DateOf(a).t <= DateOf(b).t

\* C8: the list of list_sessions is in descending order of updatedAt, taken
\* as a parsed instant, for every set of session files.
C8_SortedDescending ==
  last.op = "list" =>
    \A i \in 1..(Len(last.list) - 1) :
      NotAfter(last.list[i + 1].updatedAt, last.list[i].updatedAt)

\* C9: every info returned has createdAt <= updatedAt.
C9_CreatedNotAfterUpdated ==
  /\ (last.op = "parse" /\ last.tag = "ok") =>
       NotAfter(last.info.createdAt, last.info.updatedAt)
  /\ last.op = "list" =>
       \A i \in 1..Len(last.list) : NotAfter(last.list[i].createdAt, last.list[i].updatedAt)

CarriesTimestamp(l) == IsObject(l) /\ Truthy(l.timestamp)
Stamps(file) == SelectSeq(file.lines, CarriesTimestamp)

FirstSeen(file) ==
  IF Stamps(file) = <<>> THEN toISOString(file.birthtime) ELSE Stamps(file)[1].timestamp
LastSeen(file) ==
  IF Stamps(file) = <<>> THEN toISOString(file.mtime)
  ELSE Stamps(file)[Len(Stamps(file))].timestamp

\* C10: createdAt is the timestamp of the first decoded line that carries
\* one, updatedAt that of the last, lines of every type counted; the file's
\* birth and modify time are used only when no decoded line carries one.
C10_FirstAndLastTimestamp ==
  /\ (last.op = "parse" /\ last.tag = "ok") =>
       /\ last.info.createdAt = FirstSeen(TheFile)
       /\ last.info.updatedAt = LastSeen(TheFile)
  /\ last.op = "list" =>
       \A i \in 1..Len(last.list) :
         /\ last.list[i].createdAt = FirstSeen(TheFile)
         /\ last.list[i].updatedAt = LastSeen(TheFile)

C10_Witness ==
  /\ last.op = "list" /\ Len(last.list) = 1
  /\ Len(Stamps(TheFile)) = 2
  /\ IsQueue(Stamps(TheFile)[2])
  /\ last.list[1].createdAt # last.list[1].updatedAt
  /\ ~CarriesTimestamp(TheFile.lines[1])

(***************************************************************************)
(* The store as one session file of user turns that differ in their        *)
(* metadata and in the shape of their content.                             *)
(***************************************************************************)
Home == <<"/", "h">>
LongText == [i \in 1..(PREVIEW_LEN + 80) |-> "a"]

MetaLine(cwd, gitBranch, version, content) ==
  [Entry("user", Iso(1), content) EXCEPT !.cwd = cwd, !.gitBranch = gitBranch,
                                         !.version = version]

\* user turns as the external tool writes them: string content, fragment
\* lists (text and image fragments), no content at all
MetaShapes ==
  { QueueLine(Iso(1)),
    AssistantLine(Iso(2), <<Block("text", Str(Ok))>>),
    AssistantLine(Undef, <<>>),
    MetaLine(Undef, Undef, Undef, Undef),
    MetaLine(Str(Work), Str(<<"m">>), Str(<<"2">>), Str(LongText)),
    MetaLine(Str(Home), Str(<<"d">>), Str(<<"3">>),
             List(<<Block("text", Str(Hi)), Block("text", Str(Yo))>>)),
    MetaLine(EmptyStr, Undef, Undef,
             List(<<Block("image", Undef), Block("text", EmptyStr), Block("text", Str(Yo))>>)),
    MetaLine(Undef, EmptyStr, EmptyStr, Str(<<" ">>)),
    MetaLine(Str(Home), Undef, Undef, List(<<Block("image", Undef)>>)) }

InitMeta ==
  /\ root = "dir"
  /\ tree = <<Dir(DirName(1), "dir", "rx", <<File(<<"s1", Ext>>, "file", 1, 1, 2, <<>>)>>)>>
  /\ now = 1
  /\ last = NoCall
  /\ host = NoHost

\* the external tool appends one turn to the session file
ExternalAppendMeta ==
  /\ \E line \in MetaShapes :
       /\ Len(tree[1].files[1].lines) < MaxLines
       /\ tree' = [tree EXCEPT ![1].files[1].lines = Append(@, line)]
  /\ last' = NoCall
  /\ UNCHANGED <<root, now, host>>

NextMeta == ExternalAppendMeta \/ ListCall \/ ParseCall

SpecMeta == InitMeta /\ [][NextMeta]_vars

\* the infos the last call returned
Returned ==
  IF last.op = "parse" /\ last.tag = "ok" THEN {last.info}
  ELSE IF last.op = "list" THEN {last.list[i] : i \in 1..Len(last.list)}
  ELSE {}

IsUser(l) == IsObject(l) /\ l.type = "user"

\* C11: the preview of every returned info is a string of at most 120
\* characters, whatever the file holds.
C11_PreviewAtMost120 ==
  \A info \in Returned : info.preview.k = "str" /\ Len(info.preview.s) <= 120

C11_Witness ==
  /\ last.op = "list"
  /\ Len(last.list) = 1
  /\ Len(last.list[1].preview.s) = 120
  /\ \E i \in 1..Len(TheFile.lines) :
       IsUser(TheFile.lines[i]) /\ TheFile.lines[i].content.k = "str"
         /\ Len(TheFile.lines[i].content.s) > 120

\* the text-tagged fragments of a fragment list, in order
IsTextFragment(b) == b.k = "obj" /\ b.type = "text"
FragmentText(b) == IF b.text.k = "str" THEN b.text.s ELSE <<>>
TextFragments(blocks) ==
  LET kept == SelectSeq(blocks, IsTextFragment)
  IN [i \in 1..Len(kept) |-> FragmentText(kept[i])]

\* the extractable text of a user event: its string content, or the
\* newline-join of the text of its text-tagged fragments
ExtractableText(l) ==
  IF l.content.k = "str" THEN l.content.s
  ELSE IF l.content.k = "list" THEN Join(TextFragments(l.content.l), NL)
  ELSE <<>>

HasText(l) == IsUser(l) /\ ExtractableText(l) # <<>>

\* the first user line, in file order, with a non-empty extractable text
FirstWithText(lines) ==
  lines[CHOOSE i \in 1..Len(lines) :
          HasText(lines[i]) /\ \A j \in 1..(i - 1) : ~HasText(lines[j])]

\* C12: the preview is the first 120 characters of the first non-empty
\* extractable user text of the file.
C12_PreviewIsFirstText ==
  \A info \in Returned :
    (\E i \in 1..Len(TheFile.lines) : HasText(TheFile.lines[i])) =>
      info.preview = Str(SubSeq(ExtractableText(FirstWithText(TheFile.lines)), 1,
                                Min(120, Len(ExtractableText(FirstWithText(TheFile.lines))))))

FirstWinsFields == {"cwd", "gitBranch", "version", "preview"}

\* the value a user line carries for a field; for preview, what the line
\* sets when no preview is set yet
Carried(l, f) == IF f = "preview" THEN ParsePreview(EmptyStr, l.content).v ELSE l[f]

Carries(l, f) == IsUser(l) /\ Truthy(Carried(l, f))

\* the earliest user line that carries a non-empty value for the field
EarliestCarrying(lines, f) ==
  lines[CHOOSE i \in 1..Len(lines) :
          Carries(lines[i], f) /\ \A j \in 1..(i - 1) : ~Carries(lines[j], f)]

\* the accumulators of the two passes after the first k lines
ParseAfter(k) == ParseLines(Acc0, SubSeq(TheFile.lines, 1, k), now)
ExtractAfter(k) == ExtractLines(Acc0, SubSeq(TheFile.lines, 1, k))

\* once set during the pass, the field keeps its value to the end
StaysSet(f) ==
  \A i \in 0..Len(TheFile.lines) : \A j \in i..Len(TheFile.lines) :
    /\ Truthy(ParseAfter(i)[f]) => ParseAfter(j)[f] = ParseAfter(i)[f]
    /\ Truthy(ExtractAfter(i)[f]) => ExtractAfter(j)[f] = ExtractAfter(i)[f]

\* C13: cwd, gitBranch, version and preview are first-wins: once set by a
\* user line no later line changes them, and the returned value is the one
\* of the earliest user line that carries a non-empty value.
C13_FirstWins ==
  \A info \in Returned : \A f \in FirstWinsFields :
    /\ StaysSet(f)
    /\ (\E i \in 1..Len(TheFile.lines) : Carries(TheFile.lines[i], f)) =>
         info[f] = Carried(EarliestCarrying(TheFile.lines, f), f)

C13_Witness ==
  /\ last.op = "parse" /\ last.tag = "ok"
  /\ \E i, j \in 1..Len(TheFile.lines) :
       /\ i < j
       /\ \A f \in FirstWinsFields :
            /\ Carries(TheFile.lines[i], f) /\ Carries(TheFile.lines[j], f)
            /\ Carried(TheFile.lines[i], f) # Carried(TheFile.lines[j], f)
            /\ last.info[f] = Carried(TheFile.lines[i], f)

IsAssistant(l) == IsObject(l) /\ l.type = "assistant"

UserLines == {i \in 1..Len(TheFile.lines) : IsUser(TheFile.lines[i])}
AssistantLines == {i \in 1..Len(TheFile.lines) : IsAssistant(TheFile.lines[i])}

\* the metadata an assistant line must leave alone
SameUserMetadata(a, b) ==
  /\ a.userMessageCount = b.userMessageCount
  /\ a.cwd = b.cwd /\ a.gitBranch = b.gitBranch /\ a.version = b.version
  /\ a.preview = b.preview

\* C14: userMessageCount is the number of decoded user lines and
\* assistantMessageCount the number of decoded assistant lines, message or
\* not; an assistant line changes only assistantMessageCount and timestamps.
C14_CountsAreLineCounts ==
  \A info \in Returned :
    /\ info.userMessageCount = Cardinality(UserLines)
    /\ info.assistantMessageCount = Cardinality(AssistantLines)
    /\ \A k \in AssistantLines :
         /\ SameUserMetadata(ParseAfter(k), ParseAfter(k - 1))
         /\ SameUserMetadata(ExtractAfter(k), ExtractAfter(k - 1))
         /\ ParseAfter(k).assistantMessageCount = ParseAfter(k - 1).assistantMessageCount + 1
         /\ ExtractAfter(k).assistantMessageCount = ExtractAfter(k - 1).assistantMessageCount + 1

C14_Witness ==
  /\ last.op = "parse" /\ last.tag = "ok"
  /\ last.info.userMessageCount = 2
  /\ last.info.assistantMessageCount = 1
  /\ last.messages = <<>>

\* the files of the store named <id>.jsonl, as (directory, file) positions
Carrying(id) ==
  {<<d, f>> \in (1..Len(tree)) \X (1..MaxFiles) :
     /\ tree[d].kind = "dir"
     /\ f <= Len(tree[d].files)
     /\ tree[d].files[f].name = CandidateName(id)}

\* the entries of a listing that have the session id
EntriesOf(list, id) == SelectSeq(list, LAMBDA e : e.sessionId = id)

\* C15: the listing pass and the materialize pass agree on the metadata of
\* a session file: when exactly one file carries the id, the info of
\* parse_session(id) is the entry list_sessions returns for that id.
C15_PassesAgree ==
  /\ (last.op = "parse" /\ Cardinality(Carrying(last.id)) = 1) =>
       EntriesOf(CollectSessions(root, tree).sessions, last.id) =
         IF last.tag = "ok" THEN <<last.info>> ELSE <<>>
  /\ last.op = "list" =>
       \A i \in 1..Len(last.list) :
         Cardinality(Carrying(last.list[i].sessionId)) = 1 =>
           parseClaudeSession(root, tree, last.list[i].sessionId, now).info = last.list[i]

C15_Witness ==
  /\ last.op = "parse" /\ last.tag = "ok"
  /\ Cardinality(Carrying(last.id)) = 1
  /\ last.info.userMessageCount = 2
  /\ last.info.assistantMessageCount = 1
  /\ last.info.preview = Str(Hi)
  /\ last.info.createdAt # last.info.updatedAt

(***************************************************************************)
(* The store as one session file that gets a single turn, drawn from the   *)
(* shapes of content the Message Reconstructor tells apart.                *)
(***************************************************************************)
MaxBlocks == 3

SeqsUpTo(S, n) == UNION {[1..k -> S] : k \in 0..n}

Tool == Str(<<"t", "1">>)

\* fragments inside user content and inside tool_result content
Fragments ==
  { Block("text", Str(Hi)), Block("text", EmptyStr), Block("text", Undef),
    Block("image", Undef) }

\* blocks of assistant content
AssistantBlockShapes ==
  { Block("text", Str(Ok)), Block("text", Str(Hi)), Block("text", EmptyStr),
    Block("thinking", Undef),
    ToolUse(Tool, Str(<<"R">>), Obj), ToolUse(Undef, Undef, Undef),
    ToolResult(Tool, Str(Hi), True),
    ToolResult(Undef, List(<<Block("text", Str(Ok)), Block("image", Undef),
                             Block("text", Str(Yo))>>), Undef),
    ToolResult(EmptyStr, Undef, False) }

UserContents ==
  {Undef, EmptyStr, Str(<<" ">>), Str(<<" ", "h", "\n">>), Obj}
    \cup {List(fs) : fs \in SeqsUpTo(Fragments, MaxBlocks)}

AssistantContents ==
  {Undef, Str(Ok)} \cup {List(bs) : bs \in SeqsUpTo(AssistantBlockShapes, MaxBlocks)}

TurnShapes ==
  {Entry("user", Iso(1), c) : c \in UserContents}
    \cup {Entry("assistant", Iso(1), c) : c \in AssistantContents}

\* the external tool writes the first turn of the session file
ExternalAppendTurn ==
  /\ tree[1].files[1].lines = <<>>
  /\ \E line \in TurnShapes : tree' = [tree EXCEPT ![1].files[1].lines = <<line>>]
  /\ last' = NoCall
  /\ UNCHANGED <<root, now, host>>

NextMsg == ExternalAppendTurn \/ ParseCall

SpecMsg == InitMeta /\ [][NextMsg]_vars

\* under SpecMsg: the turn of the file, once written
HasTurn == Len(TheFile.lines) = 1
TheTurn == TheFile.lines[1]

OnlySpace(t) == \A i \in 1..Len(t) : t[i] \in {" ", "\n", "\t", "\r"}

\* a block the reconstructor of assistant turns keeps
IsKept(b) ==
  \/ b.type = "text" /\ b.text.k = "str" /\ b.text.s # <<>>
  \/ b.type \in {"tool_use", "tool_result"}

\* an assistant event that must produce no message: content missing, not a
\* list, an empty list, or only unrecognized blocks and empty text blocks
NothingToSay(l) ==
  IsAssistant(l) /\ (l.content.k # "list" \/ \A i \in 1..Len(l.content.l) : ~IsKept(l.content.l[i]))

\* a user event that must produce no message: content missing, empty,
\* whitespace-only, or a list holding only non-text fragments
NothingAsked(l) ==
  /\ IsUser(l)
  /\ \/ l.content.k = "undef"
     \/ l.content.k = "str" /\ OnlySpace(l.content.s)
     \/ l.content.k = "list" /\ \A i \in 1..Len(l.content.l) : ~IsTextFragment(l.content.l[i])

\* C16: parse_session emits no assistant message with an empty
\* contentBlocks list and no user message with empty or whitespace-only
\* text; the events that have nothing to emit produce no message.
C16_NoEmptyMessages ==
  (last.op = "parse" /\ last.tag = "ok") =>
    /\ \A i \in 1..Len(last.messages) :
         /\ last.messages[i].role = "assistant" => last.messages[i].contentBlocks # <<>>
         /\ last.messages[i].role = "user" => ~OnlySpace(last.messages[i].content)
    /\ (HasTurn /\ (NothingToSay(TheTurn) \/ NothingAsked(TheTurn))) => last.messages = <<>>

C16_Witness ==
  /\ last.op = "parse" /\ last.tag = "ok" /\ HasTurn
  /\ last.messages = <<>>
  /\ IsAssistant(TheTurn) /\ TheTurn.content.k = "list" /\ Len(TheTurn.content.l) = 2
  /\ TheTurn.content.l[1].type = "thinking" /\ TheTurn.content.l[2].type = "text"

\* the blocks of an assistant event that are kept, in input order
KeptBlocks(l) == SelectSeq(l.content.l, IsKept)

KeptTexts(l) ==
  LET texts == SelectSeq(KeptBlocks(l), IsTextFragment)
  IN [i \in 1..Len(texts) |-> texts[i].text.s]

\* an emitted block is the image of an input block
ImageOf(out, in) ==
  /\ out.type = in.type
  /\ in.type = "text" => out.text = in.text
  /\ in.type = "tool_use" => out.input = in.input
  /\ in.type = "tool_result" => out.tool_use_id.s = in.tool_use_id.s

\* under SpecMsg: the message of the turn, when parse_session emitted one
Emitted == last.op = "parse" /\ last.tag = "ok" /\ HasTurn /\ Len(last.messages) = 1
TheMessage == last.messages[1]

\* C17: the contentBlocks of an emitted assistant message are the input
\* blocks that are non-empty text, tool_use or tool_result, in input order,
\* and its plain text is the newline-join of the kept text blocks only.
C17_AssistantBlocksKept ==
  (Emitted /\ IsAssistant(TheTurn)) =>
    /\ TheMessage.role = "assistant"
    /\ Len(TheMessage.contentBlocks) = Len(KeptBlocks(TheTurn))
    /\ \A i \in 1..Len(TheMessage.contentBlocks) :
         ImageOf(TheMessage.contentBlocks[i], KeptBlocks(TheTurn)[i])
    /\ TheMessage.content = Join(KeptTexts(TheTurn), NL)

C17_Witness ==
  /\ Emitted /\ IsAssistant(TheTurn)
  /\ Len(TheTurn.content.l) = 3 /\ Len(TheMessage.contentBlocks) = 2
  /\ TheTurn.content.l[1].type = "tool_result"
  /\ TheTurn.content.l[2].type = "thinking"
  /\ TheMessage.content = Ok

IsToolBlock(b) == b.type \in {"tool_use", "tool_result"}

HasToolBlock(m) == \E i \in 1..Len(m.contentBlocks) : IsToolBlock(m.contentBlocks[i])

\* C18: hasToolBlocks of an emitted message is true exactly when its
\* contentBlocks hold a tool_use or a tool_result block; it is false for
\* every user message and for an assistant message of text blocks only.
C18_HasToolBlocksIffToolBlock ==
  (last.op = "parse" /\ last.tag = "ok") =>
    \A i \in 1..Len(last.messages) :
      /\ last.messages[i].hasToolBlocks = HasToolBlock(last.messages[i])
      /\ last.messages[i].role = "user" => ~last.messages[i].hasToolBlocks

C18_Witness ==
  /\ Emitted /\ IsAssistant(TheTurn)
  /\ TheMessage.hasToolBlocks
  /\ Len(TheMessage.contentBlocks) = 2
  /\ TheMessage.contentBlocks[1].type = "text"
  /\ TheMessage.contentBlocks[2].type = "tool_result"

\* C19: the text of an emitted user message is the string content as it
\* stands, or the newline-join, in order, of the text of the text-tagged
\* fragments of list content; contentBlocks is one text block with that text.
C19_UserMessageText ==
  (Emitted /\ IsUser(TheTurn)) =>
    /\ TheMessage.role = "user"
    /\ TheMessage.content = ExtractableText(TheTurn)
    /\ Len(TheMessage.contentBlocks) = 1
    /\ TheMessage.contentBlocks[1].type = "text"
    /\ TheMessage.contentBlocks[1].text = Str(TheMessage.content)

C19_Witness ==
  /\ Emitted /\ IsUser(TheTurn)
  /\ TheTurn.content.k = "list" /\ Len(TheTurn.content.l) = 3
  /\ TheTurn.content.l[2].type = "image"
  /\ TheMessage.content = Hi \o NL \o Hi

\* a string field with its default: the empty string when missing
OrEmpty(v) == IF v.k = "str" THEN v ELSE Str(<<>>)

\* the content of a tool_result as it must be emitted
Normalized(c) ==
  IF c.k = "str" THEN c
  ELSE IF c.k = "list" THEN Str(Join(TextFragments(c.l), NL))
  ELSE Str(<<>>)

ToolBlockEmitted(out, in) ==
  /\ in.type = "tool_result" =>
       /\ out.content = Normalized(in.content)
       /\ out.is_error = (IF in.is_error = True THEN True ELSE False)
       /\ out.tool_use_id = OrEmpty(in.tool_use_id)
  /\ in.type = "tool_use" =>
       /\ out.id = OrEmpty(in.id)
       /\ out.name = OrEmpty(in.name)
       /\ out.input = in.input

\* C20: a tool_result block is emitted with its content normalised (a string
\* as it stands, a list as the newline-join of its text fragments, anything
\* else as the empty string), is_error defaulting to false and tool_use_id
\* to the empty string; a tool_use block with id and name defaulting to the
\* empty string.
C20_ToolBlocksNormalized ==
  (Emitted /\ IsAssistant(TheTurn)) =>
    /\ Len(TheMessage.contentBlocks) = Len(KeptBlocks(TheTurn))
    /\ \A i \in 1..Len(TheMessage.contentBlocks) :
         /\ TheMessage.contentBlocks[i].type = KeptBlocks(TheTurn)[i].type
         /\ ToolBlockEmitted(TheMessage.contentBlocks[i], KeptBlocks(TheTurn)[i])

C20_Witness ==
  /\ Emitted /\ IsAssistant(TheTurn)
  /\ Len(TheMessage.contentBlocks) = 3
  /\ TheTurn.content.l[1].type = "tool_result" /\ TheTurn.content.l[1].content.k = "list"
  /\ TheMessage.contentBlocks[1].content = Str(Ok \o NL \o Yo)
  /\ TheMessage.contentBlocks[1].is_error = False
  /\ TheTurn.content.l[2].type = "tool_use" /\ TheTurn.content.l[2].id = Undef
  /\ TheMessage.contentBlocks[2].id = Str(<<>>)
  /\ TheTurn.content.l[3].type = "tool_result" /\ TheTurn.content.l[3].content = Undef
  /\ TheMessage.contentBlocks[3].content = Str(<<>>)

\* the decoded name of a project directory: unchanged without a leading
\* dash, else with every dash turned into a slash
Decoded(name) ==
  IF name # <<>> /\ name[1] = "-"
  THEN [i \in 1..Len(name) |-> IF name[i] = "-" THEN "/" ELSE name[i]]
  ELSE name

\* the last path segment: what follows the last slash, trailing slashes
\* left aside
SegmentEnd(t) == CHOOSE n \in 0..Len(t) :
  (n = 0 \/ t[n] # "/") /\ \A i \in (n + 1)..Len(t) : t[i] = "/"
SegmentStart(t) == CHOOSE k \in 0..SegmentEnd(t) :
  (k = 0 \/ t[k] = "/") /\ \A i \in (k + 1)..SegmentEnd(t) : t[i] # "/"
LastPathSegment(t) == SubSeq(t, SegmentStart(t) + 1, SegmentEnd(t))

HasCwd(l) == IsUser(l) /\ l.cwd.k = "str" /\ l.cwd.s # <<>>

\* the authoritative cwd of a file in a directory: the first non-empty cwd
\* of a user line, else the decoded directory name
Authoritative(file, dir) ==
  IF \E i \in 1..Len(file.lines) : HasCwd(file.lines[i])
  THEN file.lines[CHOOSE i \in 1..Len(file.lines) :
                    HasCwd(file.lines[i]) /\ \A j \in 1..(i - 1) : ~HasCwd(file.lines[j])].cwd
  ELSE Str(Decoded(dir.name))

Bak == ".bak"

NameShapes ==
  { <<"x", Ext>>, <<"x", Ext, Ext>>, <<"x", Ext, Bak, Ext>>, <<"x", Bak, Ext, Ext>>,
    <<"x", Bak, Ext>>, <<"x", Bak>> }

NamedContents == {<<UserLine(Iso(1), Hi)>>, <<UserLine(Iso(2), Yo)>>}

InitNames ==
  /\ root = "dir"
  /\ tree = <<Dir(DirName(1), "dir", "rx", <<>>)>>
  /\ now = 1
  /\ last = NoCall
  /\ host = NoHost

\* the external tool (or the user) puts a file into the project directory
ExternalCreateNamed ==
  /\ Len(tree[1].files) < MaxFiles
  /\ \E name \in NameShapes : \E c \in NamedContents :
       /\ \A i \in 1..Len(tree[1].files) : tree[1].files[i].name # name
       /\ tree' = [tree EXCEPT ![1].files = Append(@, File(name, "file", 1, 1, 2, c))]
  /\ last' = NoCall
  /\ UNCHANGED <<root, now, host>>

\* a caller runs parseClaudeSession with a session id taken from the listing
\* it has just got
ParseListed ==
  /\ last.op = "list"
  /\ \E i \in 1..Len(last.list) :
       last' = ParseResult(parseClaudeSession(root, tree, last.list[i].sessionId, now),
                           last.list[i].sessionId, now)
  /\ UNCHANGED <<root, tree, now, host>>

NextNames == ExternalCreateNamed \/ ListCall \/ ParseListed

SpecNames == InitNames /\ [][NextNames]_vars

\* the names of the files of a directory that end in .jsonl
JsonlNames(dir) ==
  {dir.files[f].name : f \in {g \in 1..Len(dir.files) :
     dir.files[g].name[Len(dir.files[g].name)] = ".jsonl"}}

\* C22: the sessionId of a listed session is its file name minus the
\* extension: sessionId followed by .jsonl is the name of a file of the
\* directory, and two files of one directory never get the same sessionId.
C22_SessionIdFromFileName ==
  last.op = "list" =>
    /\ \A i \in 1..Len(last.list) :
         last.list[i].sessionId \o <<".jsonl">> \in JsonlNames(tree[1])
    /\ \A i, j \in 1..Len(last.list) :
         i # j => last.list[i].sessionId # last.list[j].sessionId

(***************************************************************************)
(* The store as one project directory of any name, holding one session     *)
(* whose user turn names no cwd, so that the decoded directory name shows  *)
(* in what the calls return.                                               *)
(***************************************************************************)
MaxName == 4

NameChars == {"-", "a", "."}

EncodedNames == SeqsUpTo(NameChars, MaxName) \ {<<>>}

InitDecode ==
  /\ root = "dir"
  /\ \E name \in EncodedNames :
       tree = <<Dir(name, "dir", "rx",
                    <<File(<<"s1", Ext>>, "file", 1, 1, 2, <<Entry("user", Iso(1), Str(Hi))>>)>>)>>
  /\ now = 1
  /\ last = NoCall
  /\ host = NoHost

NextDecode == ListCall \/ ParseCall

SpecDecode == InitDecode /\ [][NextDecode]_vars

\* C23: decodeProjectPath returns a name without a leading dash unchanged
\* and otherwise the name with every dash replaced by a slash; it has a
\* value for every name.
C23_DecodeProjectPath ==
  /\ decodeProjectPath(tree[1].name) = Decoded(tree[1].name)
  /\ \A info \in Returned : info.projectPath = Str(Decoded(tree[1].name))

C23_Witness ==
  /\ last.op = "list" /\ Len(last.list) = 1
  /\ tree[1].name = <<"-", "a", "-", "a">>
  /\ last.list[1].projectPath = Str(<<"/", "a", "/", "a">>)

\* a step in which a caller got a result
IsCall == last' # last /\ last'.op # "none"

\* the result of the step is the result the previous call gave
SameResult ==
  last'.tag = last.tag /\ last'.info = last.info /\ last'.messages = last.messages

\* C24: list_sessions and parse_session are read-only and stateless: a call
\* leaves the store as it is, and its result depends on the store alone, so
\* a parse_session that follows a parse_session of the same id on an
\* unchanged store returns the same result.
C24_ReadOnlyStateless ==
  [][IsCall =>
       /\ UNCHANGED <<root, tree>>
       /\ (last.op = "parse" /\ last'.op = "parse" /\ last'.id = last.id) => SameResult]_vars

\* the read-only half alone
CallsLeaveStore == [][IsCall => UNCHANGED <<root, tree>>]_vars

(***************************************************************************)
(* The store as a root whose entries are project directories and symbolic  *)
(* links to directories (no directory for readdir's file types), each      *)
(* holding session files of the same names.                                *)
(***************************************************************************)
EntryKinds == {"dir", "link"}

FirstContents ==
  { <<RawLine("blank")>>, <<QueueLine(Iso(3))>>, <<UserLine(Iso(1), Hi)>>,
    <<UserLine(Iso(2), Yo)>> }

FirstFiles(name) ==
  {File(name, "file", 1, 1, 2, c) : c \in FirstContents}
    \cup {File(name, "file", MAX_FILE_SIZE + 1, 1, 2, <<UserLine(Iso(3), Hi)>>)}

InitFirst ==
  /\ root = "dir"
  /\ tree = <<>>
  /\ now = 1
  /\ last = NoCall
  /\ host = NoHost

\* the external tool makes a project directory, or the user links one
ExternalMkdirOrLink ==
  /\ Len(tree) < MaxDirs
  /\ \E k \in EntryKinds : tree' = Append(tree, Dir(DirName(Len(tree) + 1), k, "rx", <<>>))
  /\ last' = NoCall
  /\ UNCHANGED <<root, now, host>>

\* a session file appears in a directory, linked or not
ExternalCreateIn ==
  /\ TotalFiles(tree) < MaxFiles
  /\ \E d \in 1..Len(tree) : \E name \in FileNames : \E file \in FirstFiles(name) :
       /\ \A i \in 1..Len(tree[d].files) : tree[d].files[i].name # name
       /\ tree' = [tree EXCEPT ![d].files = Append(@, file)]
  /\ last' = NoCall
  /\ UNCHANGED <<root, now, host>>

NextFirst == ExternalMkdirOrLink \/ ExternalCreateIn \/ ListCall \/ ParseCall

SpecFirst == InitFirst /\ [][NextFirst]_vars

\* the root entries that are directories and hold <id>.jsonl
Matching(id) ==
  {d \in 1..Len(tree) :
     /\ tree[d].kind = "dir"
     /\ \E f \in 1..Len(tree[d].files) : tree[d].files[f].name = id \o <<".jsonl">>}

FirstMatching(id) == CHOOSE d \in Matching(id) : \A e \in Matching(id) : d <= e

MatchedFile(id) ==
  tree[FirstMatching(id)].files[
    CHOOSE f \in 1..Len(tree[FirstMatching(id)].files) :
      tree[FirstMatching(id)].files[f].name = id \o <<".jsonl">>]

\* over the ceiling, blank, or without a user or assistant event
Unusable(file) ==
  \/ file.size > 50 * 1024 * 1024
  \/ \A i \in 1..Len(file.lines) : ~IsTurn(file.lines[i])

\* C25: parse_session uses only the first project directory, in readdir
\* order, that holds <id>.jsonl: an unusable file there gives not-found
\* whatever later directories hold, the result is the one of a store with
\* that directory alone, and root entries that are no directories are
\* never searched.
C25_FirstDirectoryOnly ==
  last.op = "parse" =>
    IF Matching(last.id) = {} THEN last.tag = "null"
    ELSE /\ Unusable(MatchedFile(last.id)) => last.tag = "null"
         /\ ParseResult(parseClaudeSession(root, <<tree[FirstMatching(last.id)]>>, last.id, now),
                        last.id, last.at) = last

C25_Witness ==
  /\ last.op = "parse" /\ last.tag = "null"
  /\ Len(tree) = 2
  /\ Matching(last.id) = {1, 2}
  /\ Unusable(MatchedFile(last.id))
  /\ ~Unusable(tree[2].files[1])

\* the session ids list_sessions returns on the store as it stands
ListedIds ==
  {CollectSessions(root, tree).sessions[i].sessionId :
     i \in 1..Len(CollectSessions(root, tree).sessions)}

\* C26: listing and materializing agree on existence: parse_session of a
\* session id that list_sessions returns for the same store returns a
\* ParsedSession.
C26_ListedIsParsable ==
  (last.op = "parse" /\ last.id \in ListedIds) => last.tag = "ok"

\* a decoded user or assistant line that yields a message
Yields(l) ==
  \/ IsUser(l) /\ ~OnlySpace(ExtractableText(l))
  \/ IsAssistant(l) /\ l.content.k = "list" /\ KeptBlocks(l) # <<>>

Silent(S) == {i \in S : ~Yields(TheFile.lines[i])}

MessagesOf(role) == {i \in 1..Len(last.messages) : last.messages[i].role = role}

\* C27: a ParsedSession has at most userMessageCount user messages and at
\* most assistantMessageCount assistant messages, and each difference is
\* the number of decoded lines of that type that yield no message.
C27_MessagesVersusCounts ==
  (last.op = "parse" /\ last.tag = "ok") =>
    /\ Cardinality(MessagesOf("user")) <= last.info.userMessageCount
    /\ Cardinality(MessagesOf("assistant")) <= last.info.assistantMessageCount
    /\ last.info.userMessageCount - Cardinality(MessagesOf("user")) =
         Cardinality(Silent(UserLines))
    /\ last.info.assistantMessageCount - Cardinality(MessagesOf("assistant")) =
         Cardinality(Silent(AssistantLines))

C27_Witness ==
  /\ last.op = "parse" /\ last.tag = "ok"
  /\ last.info.userMessageCount = 2 /\ Cardinality(MessagesOf("user")) = 1
  /\ last.info.assistantMessageCount = 1 /\ Cardinality(MessagesOf("assistant")) = 0

\* C28: parse_session returns not-found only for a missing file, a file
\* over the ceiling or a file without a decoded user or assistant line;
\* for any other located file it returns a ParsedSession, also when no
\* line yields a message.
C28_NotFoundOnlyWhen ==
  last.op = "parse" =>
    IF Matching(last.id) # {} /\ ~Unusable(MatchedFile(last.id))
    THEN last.tag = "ok"
    ELSE last.tag = "null"

C28_Witness ==
  /\ last.op = "parse" /\ last.tag = "ok"
  /\ last.messages = <<>>
  /\ TheFile.size = 50 * 1024 * 1024
  /\ Len(TheFile.lines) = 3

(***************************************************************************)
(* The host database (lib/db): the host application's sessions, each with  *)
(* the id of the CLI session it was imported from, and their messages.     *)
(***************************************************************************)
\* createSession(title, model, systemPrompt, workingDirectory, mode): a new
\* row with a fresh id and no sdk_session_id
createSession(db, title, workingDirectory) ==
  [db EXCEPT !.sessions =
     Append(@, [id |-> Len(@) + 1, title |-> title,
                working_directory |-> workingDirectory, sdk_session_id |-> EmptyStr])]

\* updateSdkSessionId(id, sdkSessionId)
updateSdkSessionId(db, id, sdkSessionId) ==
  [db EXCEPT !.sessions =
     [i \in 1..Len(@) |->
        IF @[i].id = id THEN [@[i] EXCEPT !.sdk_session_id = sdkSessionId] ELSE @[i]]]

\* addMessage(sessionId, role, content)
addMessage(db, id, role, content) ==
  [db EXCEPT !.messages = Append(@, [session_id |-> id, role |-> role, content |-> content])]

\* getAllSessions()
getAllSessions(db) == db.sessions

(***************************************************************************)
(* POST /api/claude-sessions/import                                        *)
(***************************************************************************)
\* JSON.stringify of a value of a block's field
JsonValue(v) ==
  CASE v.k = "str" -> <<"\"">> \o v.s \o <<"\"">>
    [] v.k = "true" -> <<"true">>
    [] v.k = "false" -> <<"false">>
    [] v.k = "num" -> ToText(v)
    [] v.k = "obj" -> <<"{}">>
    [] OTHER -> <<"[]">>

\* a field of an object: one that is undefined is left out
JsonField(name, v) == IF v.k = "undef" THEN <<>> ELSE <<",", name, ":">> \o JsonValue(v)

JsonBlock(b) ==
  <<"{", "type", ":", b.type>> \o JsonField("text", b.text) \o JsonField("id", b.id)
    \o JsonField("name", b.name) \o JsonField("input", b.input)
    \o JsonField("tool_use_id", b.tool_use_id) \o JsonField("content", b.content)
    \o JsonField("is_error", b.is_error) \o <<"}">>

\* JSON.stringify(msg.contentBlocks)
Stringify(blocks) ==
  <<"[">> \o Join([i \in 1..Len(blocks) |-> JsonBlock(blocks[i])], <<",">>) \o <<"]">>

\* msg.hasToolBlocks ? JSON.stringify(msg.contentBlocks) : msg.content
ImportContent(msg) == IF msg.hasToolBlocks THEN Stringify(msg.contentBlocks) ELSE msg.content

\* if (content.trim()) addMessage(session.id, msg.role, content)
ImportMessage(db, id, role, content) ==
  IF IsBlank(content) THEN db ELSE addMessage(db, id, role, content)

RECURSIVE ImportMessages(_, _, _)
\* for (const msg of messages)
ImportMessages(db, id, messages) ==
  IF messages = <<>> THEN db
  ELSE ImportMessages(ImportMessage(db, id, messages[1].role, ImportContent(messages[1])),
                      id, Tail(messages))

TITLE_LEN == 50

\* content.slice(0, 50) + (content.length > 50 ? '...' : '')
TitleOf(content) ==
  Slice(content, TITLE_LEN) \o (IF Len(content) > TITLE_LEN THEN <<"...">> ELSE <<>>)

RECURSIVE ImportTitle(_, _)
\* the first user message gives the title, else `Imported: ${info.projectName}`
ImportTitle(messages, info) ==
  IF messages = <<>> THEN <<"Imported: ">> \o info.projectName
  ELSE IF messages[1].role = "user" THEN TitleOf(messages[1].content)
  ELSE ImportTitle(Tail(messages), info)

\* mutant: no check for an earlier import
NeverImported(sessions, sessionId) == 0

\* existingSessions.find(s => s.sdk_session_id === sessionId): the position
\* of the first such session, 0 when there is none
AlreadyImported(sessions, sessionId) ==
  IF \E i \in 1..Len(sessions) : sessions[i].sdk_session_id = sessionId
  THEN CHOOSE i \in 1..Len(sessions) :
         /\ sessions[i].sdk_session_id = sessionId
         /\ \A j \in 1..(i - 1) : sessions[j].sdk_session_id # sessionId
  ELSE 0

Respond(db, status, sessionId, id, messageCount) ==
  [db EXCEPT !.response = [status |-> status, sessionId |-> sessionId, id |-> id,
                           messageCount |-> messageCount]]

\* createSession, updateSdkSessionId, the loop over messages, the 201
ImportCreated(db, sessionId, parsed) ==
  Respond(ImportMessages(updateSdkSessionId(db, Len(db.sessions), sessionId),
                         Len(db.sessions), parsed.messages),
          201, sessionId, Len(db.sessions), Len(parsed.messages))

\* after parseClaudeSession: a raise is caught by the handler's catch
ImportParsed(db, sessionId, parsed) ==
  IF parsed.tag = "throw" THEN Respond(db, 500, sessionId, 0, 0)
  ELSE IF parsed.tag = "null" THEN Respond(db, 404, sessionId, 0, 0)
  ELSE IF Len(parsed.messages) = 0 THEN Respond(db, 400, sessionId, 0, 0)
  ELSE ImportCreated(createSession(db, ImportTitle(parsed.messages, parsed.info),
                                   OrElse(parsed.info.cwd, parsed.info.projectPath)),
                     sessionId, parsed)

ImportChecked(db, sessionId, existing, rt, tr, at) ==
  IF existing # 0 THEN Respond(db, 409, sessionId, db.sessions[existing].id, 0)
  ELSE ImportParsed(db, sessionId,
                    parseClaudeSession(rt, tr, IF sessionId.k = "str" THEN sessionId.s ELSE <<>>, at))

\* the handler from its first statement after the body was read
POST(db, sessionId, rt, tr, at) ==
  IF ~Truthy(sessionId) THEN Respond(db, 400, sessionId, 0, 0)
  ELSE ImportChecked(db, sessionId, AlreadyImported(getAllSessions(db), sessionId), rt, tr, at)

(***************************************************************************)
(* Import requests against a store the external tool has written.  The     *)
(* handler awaits once, for the body of the request; what follows runs     *)
(* without yielding, so requests interleave only between PostReceive and   *)
(* PostHandle.                                                             *)
(***************************************************************************)
MaxRequests == 3

Blank == <<" ">>

\* session files: a plain exchange, a tool call, an answer of white space,
\* a long first question, a counted line without message, no turn at all
ImportContents ==
  { <<UserLine(Iso(2), Hi), AssistantLine(Iso(1), <<Block("text", Str(Ok))>>)>>,
    <<UserLine(Iso(2), Hi),
      AssistantLine(Iso(1), <<ToolUse(Tool, Str(<<"R">>), Obj), Block("text", Str(Blank))>>)>>,
    <<UserLine(Iso(2), Hi), AssistantLine(Iso(1), <<Block("text", Str(Blank))>>)>>,
    <<AssistantLine(Iso(1), <<Block("text", Str(Ok))>>), UserLine(Iso(2), LongText)>>,
    <<AssistantLine(Iso(1), <<Block("text", Str(Ok))>>)>>,
    <<AssistantLine(Undef, <<>>)>>,
    <<QueueLine(Iso(1))>> }

\* the sessionId of a request body
RequestIds == {Undef} \cup {Str(id) : id \in SessionIds}

InitImport ==
  /\ root = "dir"
  /\ \E c1 \in ImportContents, c2 \in ImportContents, k2 \in {"file", "dir"} :
       tree = <<Dir(DirName(1), "dir", "rx",
                    <<File(<<"s1", Ext>>, "file", 1, 1, 2, c1),
                      File(<<"s2", Ext>>, k2, 1, 1, 2, c2)>>)>>
  /\ now = 1
  /\ last = NoCall
  /\ host = NoHost

\* const body = await request.json(): the request waits for its body
PostReceive ==
  /\ host.received < MaxRequests
  /\ \E sessionId \in RequestIds :
       host' = [host EXCEPT !.pending = Append(@, sessionId), !.received = @ + 1]
  /\ UNCHANGED <<root, tree, now, last>>

Without(q, i) == SubSeq(q, 1, i - 1) \o SubSeq(q, i + 1, Len(q))

\* the body of a waiting request arrives: the rest of the handler runs
PostHandle ==
  /\ \E i \in 1..Len(host.pending) :
       host' = POST([host EXCEPT !.pending = Without(@, i)], host.pending[i], root, tree, now)
  /\ UNCHANGED <<root, tree, now, last>>

NextImport == PostReceive \/ PostHandle

SpecImport == InitImport /\ [][NextImport]_vars

\* the host sessions imported from a CLI session
ImportsOf(db, sessionId) ==
  {i \in 1..Len(db.sessions) : db.sessions[i].sdk_session_id = sessionId}

\* a step in which the handler answered a request
Answered == Len(host'.pending) < Len(host.pending)

Stored(db) == <<db.sessions, db.messages>>

\* the answer 409 names the host session that holds the id since before
AnswersExisting ==
  \E i \in ImportsOf(host, host'.response.sessionId) :
    host'.response.id = host.sessions[i].id

AtMostOnce == \A sessionId \in RequestIds : Cardinality(ImportsOf(host, sessionId)) <= 1

\* C29: a CLI session is imported at most once.  Whatever the order in which
\* import requests arrive and are answered, no two host sessions carry the
\* same sdk_session_id; a request for an id already imported is answered 409
\* with the id of the host session that holds it and stores nothing, and a
\* request answered 400 or 404 stores nothing.
C29_ImportedAtMostOnce ==
  /\ []AtMostOnce
  /\ [][Answered =>
          /\ host'.response.status \in {400, 404, 409} => Stored(host') = Stored(host)
          /\ host'.response.status = 409 => AnswersExisting]_vars

\* a second request for an imported id was answered 409 while a third one
\* for the same id is still waiting
C29_Witness ==
  /\ host.response.status = 409
  /\ Cardinality(ImportsOf(host, host.response.sessionId)) = 1
  /\ host.sessions[host.response.id].sdk_session_id = host.response.sessionId
  /\ \E i \in 1..Len(host.pending) : host.pending[i] = host.response.sessionId

\* the messages stored for a host session, in the order they were stored
RECURSIVE StoredFor(_, _)
StoredFor(messages, id) ==
  IF messages = <<>> THEN <<>>
  ELSE IF messages[1].session_id = id THEN <<messages[1]>> \o StoredFor(Tail(messages), id)
  ELSE StoredFor(Tail(messages), id)

\* the messages of the CLI session the last answer is about
ParsedFor(sessionId) ==
  IF sessionId.k = "str" THEN parseClaudeSession(root, tree, sessionId.s, now).messages
  ELSE <<>>

SameMessages(stored, parsed) ==
  /\ Len(stored) = Len(parsed)
  /\ \A k \in 1..Len(stored) :
       /\ stored[k].role = parsed[k].role
       /\ ~parsed[k].hasToolBlocks => stored[k].content = parsed[k].content
       /\ parsed[k].hasToolBlocks => stored[k].content = Stringify(parsed[k].contentBlocks)

\* C30: after an import answered 201, the messageCount of the answer is the
\* number of messages stored for the new host session, and the stored
\* messages are the parsed messages in their order: the JSON of contentBlocks
\* where the message has tool blocks, the plain text otherwise.
C30_CountIsStored ==
  host.response.status = 201 =>
    /\ host.response.messageCount = Len(StoredFor(host.messages, host.response.id))
    /\ SameMessages(StoredFor(host.messages, host.response.id),
                    ParsedFor(host.response.sessionId))

\* an import answered 201 with tool blocks among its messages
C30_Witness ==
  /\ host.response.status = 201
  /\ \E k \in 1..Len(ParsedFor(host.response.sessionId)) :
       ParsedFor(host.response.sessionId)[k].hasToolBlocks
====
